---- MODULE Spec2Model ----
(***************************************************************************)
(* imageIO (src/aliceVision/imageIO/image.cpp): the pixel-buffer bridge.   *)
(*                                                                         *)
(* A caller owns the ints width, height, nchannels and the vectors buffer  *)
(* and outBuffer, all of one pixel kind; each action is one call of the    *)
(* bridge on them.  A vector is modelled by its scalar components in       *)
(* memory order, so that vector::size() is Len \div Cpe(kind).  The image  *)
(* library's primitives (channel_sum, paste, get_pixels, transpose, ...)   *)
(* are modelled at the call sites by what the library documents for them.  *)
(*                                                                         *)
(* Scalars: a byte is 0..ByteMax.  A float is held as an integer count of  *)
(* FloatUnit = 2^-27, the unit in which the three float luma weights and   *)
(* every product and sum of the luma computation on the modelled inputs    *)
(* are integers; Fl rounds to float32's 24 significant bits.               *)
(***************************************************************************)
EXTENDS Integers, Sequences, FiniteSets, TLC

VARIABLES kind, src, width, height, nchans, buffer, outBuffer,
          op, err, info, prev, targs, orig

vars == <<kind, src, width, height, nchans, buffer, outBuffer,
          op, err, info, prev, targs, orig>>

-----------------------------------------------------------------------------
(* Bounds of the model *)

MaxDim == 3
MaxCh == 4
MaxFloatVal == 14
MaxDownscale == 3
MaxPathLen == 5
MaxTranspose == 2

-----------------------------------------------------------------------------
(* Pixel kinds: the four overloads of every operation *)

ByteMax == 255

Kinds == {"byteGray", "byteRgb", "floatGray", "floatRgb"}

\* the oiio::TypeDesc each overload passes
TypeDescOf(k) == IF k \in {"byteGray", "byteRgb"} THEN "UCHAR" ELSE "FLOAT"

\* the nchannels each overload passes
Nch(k) == IF k \in {"byteGray", "floatGray"} THEN 1 ELSE 3

\* scalar components in one element T of the overload's std::vector<T>:
\* unsigned char and float are one scalar, rgb and Color are three
Cpe(k) == IF k \in {"byteGray", "floatGray"} THEN 1 ELSE 3

\* std::vector<T>::size()
Size(buf, k) == Len(buf) \div Cpe(k)

\* std::vector<T>::resize(n): keeps the first elements, value-initialises new ones
VectorResize(buf, n, k) ==
    [j \in 1..(n * Cpe(k)) |-> IF j <= Len(buf) THEN buf[j] ELSE 0]

-----------------------------------------------------------------------------
(* float32 arithmetic on counts of 2^-27 *)

FloatOne == 2^27

\* round a non-negative count to 24 significant bits, ties to even
Fl(x) ==
    IF x < 2^24 THEN x
    ELSE LET sh == CHOOSE s \in 1..7 : x \div (2^(23 + s)) = 1
             q == x \div (2^sh)
             r == x % (2^sh)
             half == 2^(sh - 1)
             up == r > half \/ (r = half /\ (q % 2) = 1)
         IN  (IF up THEN q + 1 ELSE q) * (2^sh)

\* const float weights[3] = {.2126, .7152, .0722}, each as a count of 2^-27
W1 == 28534688
W2 == 95992520
W3 == 9690520

\* the blue weight left out
Weights_NoBlue == <<W1, W2, 0>>

Weights == <<W1, W2, W3>>

\* float(v) * weights[c] for a float v that is a whole number of FloatOne
FMul(v, w) == Fl((v \div FloatOne) * w)

FAdd(a, b) == Fl(a + b)

\* channel_sum on byte pixels: the library reads a byte as v / 255, sums in
\* float and stores the sum * 255 rounded to the nearest byte.  Modelled as
\* the exact sum with the float weights, rounded half up:
\* floor((sum_c W_c * v_c + 2^26) / 2^27), computed in two limbs of 2^13
ByteSum(p, w) ==
    LET hi == p[1] * (w[1] \div (2^13)) + p[2] * (w[2] \div (2^13)) + p[3] * (w[3] \div (2^13))
        lo == p[1] * (w[1] % (2^13)) + p[2] * (w[2] % (2^13)) + p[3] * (w[3] % (2^13))
        s == (hi + ((lo + 2^26) \div (2^13))) \div (2^14)
    IN  IF s > ByteMax THEN ByteMax ELSE s

\* float sum = 0; for c in [chbegin, chend): sum += s[c] * weights[c]
FloatSum(p, w) == FAdd(FAdd(FAdd(0, FMul(p[1], w[1])), FMul(p[2], w[2])), FMul(p[3], w[3]))

-----------------------------------------------------------------------------
(* Sources: the image file at path, as the library opens it *)

FileOpenError == "FileOpenError"
UnsupportedChannelLayoutError == "UnsupportedChannelLayoutError"
FileWriteError == "FileWriteError"
NoError == "none"

MaxVal(T) == IF T = "UCHAR" THEN ByteMax ELSE MaxFloatVal

\* the scalar of sample format T that stands for the whole number n
Scalar(T, n) == IF T = "UCHAR" THEN n ELSE n * FloatOne

Palette(T) ==
    LET M == MaxVal(T)
    IN  {<<0, 0, 0>>, <<M, M, M>>, <<1, 2, 3>>, <<M, 0, M \div 2>>, <<7, 13, 1>>}

\* pixel i (from 1), channel c (from 1) of a file of n channels; the file
\* stores samples of the sample format the caller reads (bytes for the byte
\* kinds, whole floats up to MaxFloatVal for the float kinds)
Sample(T, base, step, n, i, c) ==
    LET b == IF c <= 3 THEN base[c] ELSE base[1] + c
    IN  Scalar(T, (b + (i - 1) * step) % (MaxVal(T) + 1))

Source(T, w, h, n, base, step) ==
    [openable |-> TRUE, width |-> w, height |-> h, nchannels |-> n,
     px |-> [i \in 1..(w * h) |-> [c \in 1..n |-> Sample(T, base, step, n, i, c)]]]

\* a path that is no image: the library's buffer stays uninitialized
Unopenable ==
    [openable |-> FALSE, width |-> 0, height |-> 0, nchannels |-> 0, px |-> <<>>]

Sources(T) ==
    {Unopenable}
    \cup {Source(T, w, h, n, base, step) :
            w \in 1..MaxDim, h \in 1..MaxDim, n \in 0..MaxCh,
            base \in Palette(T), step \in 0..1}
    \cup {Source(T, 1, 1, n, <<v, v, v>>, 0) : v \in 0..MaxVal(T), n \in 3..MaxCh}

\* the source with the channels past the third dropped
Truncated(s) ==
    [s EXCEPT !.nchannels = 3, !.px = [i \in 1..Len(s.px) |-> SubSeq(s.px[i], 1, 3)]]

-----------------------------------------------------------------------------
(* readImageSpec, readImage *)

\* if(inSpec.nchannels != 1 && inSpec.nchannels < 3)
ChannelsUnsupported_NoGray(n) == n < 3

ChannelsUnsupported(n) == n /= 1 /\ n < 3

\* convertionROI = inBuf.roi(); chbegin = 0; chend = 3
ConvertionROI_Last(img) == [chbegin |-> img.nchannels - 3, chend |-> img.nchannels]

ConvertionROI(img) == [chbegin |-> 0, chend |-> 3]

\* exportROI = inBuf.roi(); chbegin = 0; chend = nchannels
ExportROI(nchannels) == [chbegin |-> 0, chend |-> nchannels]

WeightedSum(T, p, w) == IF T = "UCHAR" THEN ByteSum(p, w) ELSE FloatSum(p, w)

\* ImageBufAlgo::channel_sum(grayscaleBuf, inBuf, weights, convertionROI)
ChannelSum(img, roi, T) ==
    [width |-> img.width, height |-> img.height, nchannels |-> 1,
     px |-> [i \in 1..Len(img.px) |->
               <<WeightedSum(T, SubSeq(img.px[i], roi.chbegin + 1, roi.chend), Weights)>>]]

\* ImageBufAlgo::paste(dst, 0, 0, 0, chbegin, src)
Paste(dst, chbegin, from) ==
    [dst EXCEPT !.px = [i \in 1..Len(dst.px) |->
        [c \in 1..dst.nchannels |->
            IF c > chbegin /\ c <= chbegin + from.nchannels
              THEN from.px[i][c - chbegin] ELSE dst.px[i][c]]]]

\* oiio::ImageBuf requestedBuf(requestedSpec)
RequestedBuf(w, h, n) ==
    [width |-> w, height |-> h, nchannels |-> n,
     px |-> [i \in 1..(w * h) |-> [c \in 1..n |-> 0]]]

\* duplicate first channel for RGB
Replicate_TwoOnly(requestedBuf, inBuf) ==
    Paste(Paste(requestedBuf, 0, inBuf), 1, inBuf)

Replicate(requestedBuf, inBuf) ==
    Paste(Paste(Paste(requestedBuf, 0, inBuf), 1, inBuf), 2, inBuf)

\* add missing channels
AddChannels(inBuf, nchannels) ==
    LET requestedBuf == RequestedBuf(inBuf.width, inBuf.height, nchannels)
    IN  IF nchannels >= 3 /\ inBuf.nchannels < 3
          THEN Replicate(requestedBuf, inBuf) ELSE requestedBuf

\* inBuf.get_pixels(roi, typeDesc, buffer.data()): the roi's channels of every
\* pixel, row-major, written from the start of the memory
GetPixels(img, roi, mem) ==
    LET nc == roi.chend - roi.chbegin
        n == img.width * img.height * nc
    IN  [j \in 1..Len(mem) |->
           IF j <= n THEN img.px[((j - 1) \div nc) + 1][roi.chbegin + ((j - 1) % nc) + 1]
                     ELSE mem[j]]

\* a throw: the call ends with the caller's references as they are
Thrown_DimsSet(e, s, w0, h0, buf) ==
    [err |-> e, width |-> s.width, height |-> s.height, buffer |-> buf]

Thrown(e, s, w0, h0, buf) ==
    [err |-> e, width |-> w0, height |-> h0, buffer |-> buf]

\* template readImage<T>; inSpec is a reference to inBuf's spec, so after
\* inBuf.copy() it reads the spec of the buffer copied in
ReadImageResult(k, s, w0, h0, buf) ==
    LET nchannels == Nch(k)
        T == TypeDescOf(k)
        inBuf == [width |-> s.width, height |-> s.height,
                  nchannels |-> s.nchannels, px |-> s.px]
        gray == IF nchannels = 1 /\ inBuf.nchannels >= 3
                  THEN ChannelSum(inBuf, ConvertionROI(inBuf), T) ELSE inBuf
        full == IF nchannels > gray.nchannels
                  THEN AddChannels(gray, nchannels) ELSE gray
        resized == VectorResize(buf, full.width * full.height * nchannels, k)
    IN  IF ~s.openable THEN Thrown(FileOpenError, s, w0, h0, buf)
        ELSE IF ChannelsUnsupported(s.nchannels)
               THEN Thrown(UnsupportedChannelLayoutError, s, w0, h0, buf)
        ELSE [err |-> NoError, width |-> full.width, height |-> full.height,
              buffer |-> GetPixels(full, ExportROI(nchannels), resized)]

ReadImage ==
    LET r == ReadImageResult(kind, src, width, height, buffer)
    IN  /\ op' = "readImage"
        /\ err' = r.err
        /\ width' = r.width
        /\ height' = r.height
        /\ buffer' = r.buffer
        /\ prev' = buffer
        /\ UNCHANGED <<kind, src, nchans, outBuffer, info, targs, orig>>

ReadImageSpec ==
    /\ op' = "readImageSpec"
    /\ prev' = buffer
    /\ IF ~src.openable
         THEN err' = FileOpenError /\ UNCHANGED <<width, height, nchans>>
         ELSE /\ err' = NoError
              /\ width' = src.width
              /\ height' = src.height
              /\ nchans' = src.nchannels
    /\ UNCHANGED <<kind, src, buffer, outBuffer, info, targs, orig>>

\* what the caller holds before the call: nothing yet, or an earlier image
StaleBuffer(k, w, h) == [j \in 1..(w * h * Cpe(k)) |-> Scalar(TypeDescOf(k), 1 + (j % 2))]

Init ==
    /\ kind \in Kinds
    /\ src \in Sources(TypeDescOf(kind))
    /\ \E stale \in {0, 1} :
         /\ width = stale
         /\ height = 2 * stale
         /\ nchans = stale * Nch(kind)
         /\ buffer = StaleBuffer(kind, stale, 2 * stale)
    /\ outBuffer = <<>>
    /\ op = "init"
    /\ err = NoError
    /\ info = <<>>
    /\ prev = <<>>
    /\ targs = <<>>
    /\ orig = <<>>

Next == ReadImageSpec \/ ReadImage

Spec == Init /\ [][Next]_vars

-----------------------------------------------------------------------------
(* transposeImage *)

\* oiio::ImageBuf inBuf(imageSpec, buffer.data()): the caller's memory read as
\* a w x h image of n channels, row-major
WrapBuffer(w, h, n, mem) ==
    [width |-> w, height |-> h, nchannels |-> n,
     px |-> [i \in 1..(w * h) |-> [c \in 1..n |-> mem[(i - 1) * n + c]]]]

\* a quarter turn instead of the transpose
Transpose_Rotated(img) ==
    [width |-> img.height, height |-> img.width, nchannels |-> img.nchannels,
     px |-> [i \in 1..(img.width * img.height) |->
               LET x == (i - 1) % img.height
                   y == (i - 1) \div img.height
               IN  img.px[(img.height - 1 - x) * img.width + y + 1]]]

\* ImageBufAlgo::transpose(transposeBuf, inBuf, ROI::All()): dst(x, y) = src(y, x)
Transpose(img) ==
    [width |-> img.height, height |-> img.width, nchannels |-> img.nchannels,
     px |-> [i \in 1..(img.width * img.height) |->
               LET x == (i - 1) % img.height
                   y == (i - 1) \div img.height
               IN  img.px[x * img.width + y + 1]]]

\* template transposeImage<T>
TransposeResult(k, w, h, buf) ==
    LET inBuf == WrapBuffer(w, h, Nch(k), buf)
        transposeBuf == Transpose(inBuf)
    IN  GetPixels(transposeBuf, ExportROI(Nch(k)), buf)

\* transposeImage(w, h, buffer) on a buffer that holds a w x h image
TransposeImage ==
    \E w \in 1..MaxDim, h \in 1..MaxDim :
        /\ Len(targs) < MaxTranspose
        /\ Size(buffer, kind) = w * h
        /\ op' = "transposeImage"
        /\ err' = NoError
        /\ buffer' = TransposeResult(kind, w, h, buffer)
        /\ prev' = buffer
        /\ targs' = Append(targs, <<w, h>>)
        /\ UNCHANGED <<kind, src, width, height, nchans, outBuffer, info, orig>>

\* a w x h image whose scalars are all different
Labelled(k, w, h) == [j \in 1..(w * h * Cpe(k)) |-> j]

InitTranspose ==
    /\ kind \in Kinds
    /\ src = Unopenable
    /\ width \in 1..MaxDim
    /\ height \in 1..MaxDim
    /\ nchans = Nch(kind)
    /\ buffer = Labelled(kind, width, height)
    /\ outBuffer = <<>>
    /\ op = "init"
    /\ err = NoError
    /\ info = <<>>
    /\ prev = <<>>
    /\ targs = <<>>
    /\ orig = [width |-> width, height |-> height, buffer |-> buffer]

SpecTranspose == InitTranspose /\ [][TransposeImage]_vars

-----------------------------------------------------------------------------
(* resizeImage, convolveImage *)

\* what the library's resampling or convolution leaves in a scalar
Filtered == "filtered"

OutDim_Ceil(inDim, downscale) == (inDim + downscale - 1) \div downscale

\* const int outWidth = inWidth / downscale
OutDim(inDim, downscale) == inDim \div downscale

\* template resizeImage<T>: the library fills all of outBuf
ResizeResult(k, inWidth, inHeight, downscale, outBuf) ==
    LET outWidth == OutDim(inWidth, downscale)
        outHeight == OutDim(inHeight, downscale)
        resized == VectorResize(outBuf, outWidth * outHeight, k)
    IN  [outWidth |-> outWidth, outHeight |-> outHeight,
         outBuffer |-> [j \in 1..Len(resized) |->
                          IF j <= outWidth * outHeight * Nch(k) THEN Filtered ELSE resized[j]]]

ResizeImage ==
    \E inWidth \in 0..MaxDim, inHeight \in 0..MaxDim, downscale \in 1..MaxDownscale :
        LET r == ResizeResult(kind, inWidth, inHeight, downscale, outBuffer)
        IN  /\ inWidth * inHeight <= Size(buffer, kind)
            /\ op' = "resizeImage"
            /\ err' = NoError
            /\ outBuffer' = r.outBuffer
            /\ info' = [inWidth |-> inWidth, inHeight |-> inHeight, downscale |-> downscale,
                        outWidth |-> r.outWidth, outHeight |-> r.outHeight]
            /\ prev' = buffer
            /\ UNCHANGED <<kind, src, width, height, nchans, buffer, targs, orig>>

\* template convolveImage<T>: outBuffer.resize(inBuffer.size()), then the
\* library fills the inWidth x inHeight image
ConvolveResult(k, inWidth, inHeight, inBuf, outBuf) ==
    LET resized == VectorResize(outBuf, Size(inBuf, k), k)
    IN  [j \in 1..Len(resized) |->
           IF j <= inWidth * inHeight * Nch(k) THEN Filtered ELSE resized[j]]

\* convolveImage(width, height, buffer, outBuffer, ...) on the image read
ConvolveImage ==
    /\ width * height <= Size(buffer, kind)
    /\ op' = "convolveImage"
    /\ err' = NoError
    /\ outBuffer' = ConvolveResult(kind, width, height, buffer, outBuffer)
    /\ info' = [inWidth |-> width, inHeight |-> height]
    /\ prev' = buffer
    /\ UNCHANGED <<kind, src, width, height, nchans, buffer, targs, orig>>

InitBuffers ==
    /\ kind \in Kinds
    /\ src \in {Source(TypeDescOf(kind), w, h, 3, <<1, 2, 3>>, 1) :
                  w \in 1..MaxDim, h \in 1..MaxDim}
    /\ width = 0
    /\ height = 0
    /\ nchans = 0
    /\ buffer = <<>>
    /\ outBuffer = <<>>
    /\ op = "init"
    /\ err = NoError
    /\ info = <<>>
    /\ prev = <<>>
    /\ targs = <<>>
    /\ orig = <<>>

NextBuffers == ReadImage \/ ResizeImage \/ ConvolveImage

SpecBuffers == InitBuffers /\ [][NextBuffers]_vars

-----------------------------------------------------------------------------
(* writeImage *)

Chars == {".", "e", "x", "r", "j"}

Paths == UNION {[1..n -> Chars] : n \in 0..MaxPathLen}

ExrExtension == <<".", "e", "x", "r">>

IsEXR_AtLeast4(path) ==
    Len(path) >= 4 /\ SubSeq(path, Len(path) - 3, Len(path)) = ExrExtension

\* bool isEXR = (path.size() > 4 && path.compare(path.size() - 4, 4, ".exr") == 0)
IsEXR(path) ==
    Len(path) > 4 /\ SubSeq(path, Len(path) - 3, Len(path)) = ExrExtension

\* template writeImage<T>: the image handed to the library's write, and the
\* error raised when that write fails
WriteResult(k, path, writeOk) ==
    IF IsEXR(path)
      THEN [path |-> path, branch |-> "exr", format |-> "HALF",
            attributes |-> [compression |-> "piz"],
            err |-> IF writeOk THEN NoError ELSE FileWriteError]
      ELSE [path |-> path, branch |-> "other", format |-> TypeDescOf(k),
            attributes |-> [subsampling |-> "4:4:4", quality |-> 100,
                            compression |-> "none"],
            err |-> IF writeOk THEN NoError ELSE FileWriteError]

\* writeImage(path, width, height, buffer), the target being src
WriteImage ==
    LET r == WriteResult(kind, src.path, src.writable)
    IN  /\ op' = "writeImage"
        /\ err' = r.err
        /\ info' = r
        /\ prev' = buffer
        /\ UNCHANGED <<kind, src, width, height, nchans, buffer, outBuffer, targs, orig>>

\* the target: a path, and whether the library's write to it will succeed
InitWrite ==
    /\ kind \in Kinds
    /\ src \in [path : Paths, writable : BOOLEAN]
    /\ width = 1
    /\ height = 1
    /\ nchans = Nch(kind)
    /\ buffer = Labelled(kind, 1, 1)
    /\ outBuffer = <<>>
    /\ op = "init"
    /\ err = NoError
    /\ info = <<>>
    /\ prev = <<>>
    /\ targs = <<>>
    /\ orig = <<>>

SpecWrite == InitWrite /\ [][WriteImage]_vars

-----------------------------------------------------------------------------
(* Properties *)

ReadSucceeded == op = "readImage" /\ err = NoError

\* pixel i of the source has R = G = B
Neutral(i) == src.px[i][1] = src.px[i][2] /\ src.px[i][2] = src.px[i][3]

\* C1: readImage fails with the unsupported-channel-layout error exactly when
\* the source opens and its channel count is neither 1 nor at least 3, and a
\* source that does not open always gives the file-open error.
C1_ChannelLayoutError ==
    op = "readImage" =>
        /\ (err = UnsupportedChannelLayoutError) <=>
               (src.openable /\ ~(src.nchannels = 1 \/ src.nchannels >= 3))
        /\ ~src.openable => err = FileOpenError
        /\ (src.openable /\ src.nchannels = 2) => err = UnsupportedChannelLayoutError

C1_Witness ==
    /\ op = "readImage"
    /\ src.openable
    /\ src.nchannels = 2
    /\ err = UnsupportedChannelLayoutError

\* C2 as stated: the same transposeImage(width, height, buffer) call made twice
\* gives back the original buffer, whatever the width and height.
C2_TwiceSameCall ==
    (Len(targs) = 2 /\ targs[1] = targs[2]) => buffer = orig.buffer

\* C2 amended: transposeImage(w, h, buffer) followed by transposeImage(h, w,
\* buffer), the second call given the exchanged dimensions, gives back the
\* original buffer, for every width, height and pixel kind.
C2_TwiceExchanged ==
    (Len(targs) = 2 /\ targs[2] = <<targs[1][2], targs[1][1]>>) => buffer = orig.buffer

C2_Witness ==
    /\ Len(targs) = 2
    /\ targs[1] = <<2, 3>>
    /\ targs[2] = <<3, 2>>
    /\ prev /= buffer
    /\ buffer = orig.buffer

\* C3 as stated: a grayscale read of a 3-channel source gives, at every pixel
\* with R = G = B = v, exactly v, for every v of the element type.
C3_NeutralGrayExact ==
    (ReadSucceeded /\ Nch(kind) = 1 /\ src.nchannels = 3) =>
        \A i \in 1..(width * height) : Neutral(i) => buffer[i] = src.px[i][1]

\* C3 amended: the three float weights sum to exactly 1; at a pixel with
\* R = G = B = v the grayscale read gives exactly v for the byte kind, and for
\* the float kind the float32 weighted sum, within 2^-22 * v of v.
C3_NeutralGrayRounded ==
    /\ W1 + W2 + W3 = FloatOne
    /\ (ReadSucceeded /\ Nch(kind) = 1 /\ src.nchannels = 3) =>
          \A i \in 1..(width * height) :
              Neutral(i) =>
                  LET v == src.px[i][1]
                      d == IF buffer[i] >= v THEN buffer[i] - v ELSE v - buffer[i]
                  IN  IF TypeDescOf(kind) = "UCHAR" THEN d = 0 ELSE d <= v \div (2^22)

C3_Witness ==
    /\ ReadSucceeded
    /\ kind = "floatGray"
    /\ src.nchannels = 3
    /\ Neutral(1)
    /\ src.px[1][1] = 7 * FloatOne
    /\ buffer[1] = 7 * FloatOne + 64

\* C4: an RGB read of a 1-channel source reports the source's width and height
\* and gives every pixel three channels equal to the source value there.
C4_Replication ==
    (ReadSucceeded /\ Nch(kind) = 3 /\ src.nchannels = 1) =>
        /\ width = src.width
        /\ height = src.height
        /\ \A i \in 1..(src.width * src.height) : \A c \in 1..3 :
               buffer[(i - 1) * 3 + c] = src.px[i][1]

C4_Witness ==
    /\ ReadSucceeded
    /\ Nch(kind) = 3
    /\ src.nchannels = 1
    /\ width * height > 1
    /\ src.px[1][1] /= src.px[2][1]
    /\ buffer[4] = src.px[2][1]

\* p ends in suffix
EndsWith(p, suffix) == \E n \in 0..Len(p) : p = SubSeq(p, 1, n) \o suffix

\* what writeImage does when the EXR branch is to be taken exactly if isExr
WriteBranches(isExr) ==
    op = "writeImage" =>
        /\ info.branch = IF isExr THEN "exr" ELSE "other"
        /\ info.branch = "exr" =>
              info.format = "HALF" /\ info.attributes = [compression |-> "piz"]
        /\ info.branch = "other" =>
              /\ info.format = TypeDescOf(kind)
              /\ info.attributes =
                    [subsampling |-> "4:4:4", quality |-> 100, compression |-> "none"]
        /\ (err = FileWriteError) <=> ~src.writable

\* C5 as stated: every path that ends in ".exr" takes the EXR branch (half
\* floats, PIZ), every other path the other branch (4:4:4, quality 100, no
\* compression), and a failed write raises the file-write error.
C5_EveryExrPath == WriteBranches(EndsWith(src.path, ExrExtension))

\* C5 amended: the EXR branch is taken for every path longer than 4 characters
\* that ends in ".exr"; every other path, the path ".exr" itself included,
\* takes the other branch; a failed write raises the file-write error.
C5_ExrPathWithStem ==
    WriteBranches(Len(src.path) > 4 /\ EndsWith(src.path, ExrExtension))

C5_Witness ==
    /\ op = "writeImage"
    /\ src.path = <<"j", ".", "e", "x", "r">>
    /\ info.branch = "exr"
    /\ err = FileWriteError

\* q is floor(a / d)
IsFloor(q, a, d) == q * d <= a /\ a < (q + 1) * d

\* C6: resizeImage makes an output of floor(inWidth / downscale) by
\* floor(inHeight / downscale) pixels, sizes the output vector to exactly
\* that many pixels, and with downscale 1 keeps the input dimensions.
C6_ResizeDimensions ==
    op = "resizeImage" =>
        /\ IsFloor(info.outWidth, info.inWidth, info.downscale)
        /\ IsFloor(info.outHeight, info.inHeight, info.downscale)
        /\ Size(outBuffer, kind) = info.outWidth * info.outHeight
        /\ Len(outBuffer) = info.outWidth * info.outHeight * Nch(kind)
        /\ info.downscale = 1 =>
              info.outWidth = info.inWidth /\ info.outHeight = info.inHeight

C6_Witness ==
    /\ op = "resizeImage"
    /\ info.inWidth = 3
    /\ info.inHeight = 2
    /\ info.downscale = 2
    /\ info.outWidth = 1
    /\ Size(outBuffer, kind) = 1

\* C7: every output vector holds exactly one image: in scalars, readImage's
\* has width x height x channels, resizeImage's outWidth x outHeight x
\* channels, convolveImage's the length of its input; so a vector of triples
\* has width x height elements.
C7_OneImagePerBuffer ==
    /\ ReadSucceeded =>
          /\ Len(buffer) = width * height * Nch(kind)
          /\ Size(buffer, kind) = width * height
    /\ op = "resizeImage" =>
          /\ Len(outBuffer) = info.outWidth * info.outHeight * Nch(kind)
          /\ Size(outBuffer, kind) = info.outWidth * info.outHeight
    /\ op = "convolveImage" => Len(outBuffer) = Len(buffer)

\* C8: for a source of more than 3 channels, readImage gives what it gives for
\* the same source cut to its first three channels, at the source's size.
C8_FirstThreeChannels ==
    (ReadSucceeded /\ src.nchannels > 3) =>
        LET r == ReadImageResult(kind, Truncated(src), 0, 0, prev)
        IN  /\ r.err = NoError
            /\ width = r.width /\ width = src.width
            /\ height = r.height /\ height = src.height
            /\ buffer = r.buffer

C8_Witness ==
    /\ ReadSucceeded
    /\ src.nchannels > 3
    /\ width * height > 1
    /\ src.px[2][4] /= src.px[2][1]
    /\ src.px[2][1] /= src.px[2][2]

\* C9: one transposeImage(w, h, buffer) keeps the buffer's length and the
\* caller's width and height, and moves the pixel at row y, column x (index
\* y * w + x) to index x * h + y, all its channels together.
C9_SingleTranspose ==
    op = "transposeImage" =>
        LET w == targs[Len(targs)][1]
            h == targs[Len(targs)][2]
            n == Nch(kind)
        IN  /\ Len(buffer) = Len(prev)
            /\ width = orig.width /\ height = orig.height
            /\ \A x \in 0..(w - 1) : \A y \in 0..(h - 1) : \A c \in 1..n :
                   buffer[(x * h + y) * n + c] = prev[(y * w + x) * n + c]

C9_Witness ==
    /\ op = "transposeImage"
    /\ targs = <<<<2, 3>>>>
    /\ Nch(kind) = 3
    /\ buffer /= prev

\* C10: a readImage or readImageSpec call that fails leaves the caller's
\* width, height, channel count and buffer as they were.
C10_FailureFrame ==
    [][(op' \in {"readImage", "readImageSpec"} /\ err' /= NoError) =>
           UNCHANGED <<width, height, nchans, buffer>>]_vars

C10_Witness ==
    /\ op = "readImage"
    /\ err = UnsupportedChannelLayoutError
    /\ width = 1
    /\ height = 2
    /\ Len(buffer) > 0

====
